---- MODULE Spec2Model ----
(***************************************************************************)
(* rclap: a TOML schema document is parsed into a generic value tree, the  *)
(* tree is resolved into a list of field specifications, and the field     *)
(* specifications are rendered into clap declarations.                     *)
(*                                                                         *)
(* Text (String, &str) is a sequence of one-character strings, so that     *)
(* joining, slicing, trimming and case conversion are computed and not     *)
(* assumed.  Option<T> is a sequence of length 0 (None) or 1 (Some).       *)
(***************************************************************************)
EXTENDS Integers, Sequences, FiniteSets, TLC

VARIABLES generic, fields, earlier, raw, generated, loaded, made

vars == <<generic, fields, earlier, raw, generated, loaded, made>>

(***************************************************************************)
(* Bounds of the model.                                                    *)
(***************************************************************************)
\* entries (key/value pairs at any depth) of the parsed document
MaxEntries == 3

(***************************************************************************)
(* Characters and text.                                                    *)
(***************************************************************************)
Lower == <<"a","b","c","d","e","f","g","h","i","j","k","l","m",
           "n","o","p","q","r","s","t","u","v","w","x","y","z">>
Upper == <<"A","B","C","D","E","F","G","H","I","J","K","L","M",
           "N","O","P","Q","R","S","T","U","V","W","X","Y","Z">>
Digits == <<"0","1","2","3","4","5","6","7","8","9">>
\* the characters of the model in code point order (the order of String's Ord)
Ascii == <<" ", ".">> \o Digits \o <<":", "<", ">">> \o Upper
           \o <<"[", "]", "_">> \o Lower

CodeOf(c) == CHOOSE i \in 1..Len(Ascii) : Ascii[i] = c

\* s < t in the byte-wise lexicographic order of String
StrLess(s, t) ==
    \E i \in 1..(Len(s) + 1) :
        /\ \A j \in 1..(i - 1) : j <= Len(t) /\ s[j] = t[j]
        /\ \/ i = Len(s) + 1 /\ Len(t) >= i
           \/ i <= Len(s) /\ i <= Len(t) /\ CodeOf(s[i]) < CodeOf(t[i])

\* char::to_uppercase yields an iterator of characters
char_to_uppercase(c) ==
    IF \E i \in 1..Len(Lower) : Lower[i] = c
    THEN <<Upper[CHOOSE i \in 1..Len(Lower) : Lower[i] = c]>>
    ELSE <<c>>

char_to_lowercase(c) ==
    IF \E i \in 1..Len(Upper) : Upper[i] = c
    THEN Lower[CHOOSE i \in 1..Len(Upper) : Upper[i] = c]
    ELSE c

\* str::to_lowercase
to_lowercase(s) == [i \in 1..Len(s) |-> char_to_lowercase(s[i])]

RECURSIVE trim_start(_)
trim_start(s) ==
    IF s # <<>> /\ Head(s) = " " THEN trim_start(Tail(s)) ELSE s

RECURSIVE trim_end(_)
trim_end(s) ==
    IF s # <<>> /\ s[Len(s)] = " " THEN trim_end(SubSeq(s, 1, Len(s) - 1)) ELSE s

\* str::trim
trim(s) == trim_end(trim_start(s))

None == <<>>
Some(x) == <<x>>

(***************************************************************************)
(* Text constants of the program.                                          *)
(***************************************************************************)
K_type == <<"t","y","p","e">>
K_default == <<"d","e","f","a","u","l","t">>
K_doc == <<"d","o","c">>
K_env == <<"e","n","v">>
K_optional == <<"o","p","t","i","o","n","a","l">>
K_long == <<"l","o","n","g">>
K_short == <<"s","h","o","r","t">>
K_enum == <<"e","n","u","m">>

T_int == <<"i","n","t">>
T_float == <<"f","l","o","a","t">>
T_bool == <<"b","o","o","l">>
T_string == <<"s","t","r","i","n","g">>
T_path == <<"p","a","t","h">>
T_char == <<"c","h","a","r">>
T_i64 == <<"i","6","4">>
T_f64 == <<"f","6","4">>
T_String == <<"S","t","r","i","n","g">>
T_Config == <<"C","o","n","f","i","g">>
T_VecOpen == <<"V","e","c","<">>
T_VecClose == <<">">>
PATH_BUF == <<"s","t","d",":",":","p","a","t","h",":",":","P","a","t","h","B","u","f">>
Dot == <<".">>

(***************************************************************************)
(* toml::Value.  A Table is a function from keys to values; toml's Map is  *)
(* a BTreeMap, iterated in ascending key order.                            *)
(***************************************************************************)
StringV(s) == [tag |-> "String", str |-> s]
BooleanV(b) == [tag |-> "Boolean", bool |-> b]
IntegerV(n) == [tag |-> "Integer", int |-> n]
TableV(t) == [tag |-> "Table", tbl |-> t]
ArrayV(a) == [tag |-> "Array", arr |-> a]
EmptyTable == <<>>

\* a value that is not a string read as the empty string
get_str_or_empty(table, key) ==
    IF key \in DOMAIN table
    THEN Some(IF table[key].tag = "String" THEN table[key].str ELSE <<>>)
    ELSE None

\* table.get(key).and_then(|v| v.as_str())
get_str(table, key) ==
    IF key \in DOMAIN table /\ table[key].tag = "String"
    THEN Some(table[key].str) ELSE None

\* table.get(key).and_then(|v| v.as_bool())
get_bool(table, key) ==
    IF key \in DOMAIN table /\ table[key].tag = "Boolean"
    THEN Some(table[key].bool) ELSE None

RECURSIVE SortedSeq(_)
SortedSeq(S) ==
    IF S = {} THEN <<>>
    ELSE LET m == CHOOSE x \in S : \A y \in S \ {x} : StrLess(x, y)
         IN <<m>> \o SortedSeq(S \ {m})

\* the iteration order of `for (sub_name, sub_value) in table`
table_iter(table) == SortedSeq(DOMAIN table)

(***************************************************************************)
(* Type resolver of rclap_core/src/utils.rs.                               *)
(***************************************************************************)
NATIVE_TYPES == {T_int, T_float, T_bool, T_string, T_path, T_char}

\* is_native_type comparing the name without lower-casing it
is_native_type_case_sensitive(ty) ==
    \/ ty \in NATIVE_TYPES
    \/ ty = T_i64
    \/ ty = PATH_BUF
    \/ ty = T_f64
    \/ ty = T_String

is_native_type(ty) ==
    \/ to_lowercase(ty) \in NATIVE_TYPES
    \/ ty = T_i64
    \/ ty = PATH_BUF
    \/ ty = T_f64
    \/ ty = T_String

to_type(ty) ==
    LET ty_lower == to_lowercase(ty)
    IN  CASE ty_lower = T_int -> T_i64
          [] ty_lower = T_float -> T_f64
          [] ty_lower = T_bool -> T_bool
          [] ty_lower = T_string -> T_String
          [] ty_lower = T_path -> PATH_BUF
          [] ty_lower = T_char -> T_char
          [] OTHER -> ty

\* to_pascal_case upper-casing every character
to_pascal_case_all(s) ==
    IF s = <<>> THEN <<>>
    ELSE char_to_uppercase(Head(s))
           \o [i \in 1..(Len(s) - 1) |-> char_to_uppercase(s[i + 1])[1]]

to_pascal_case(s) ==
    IF s = <<>> THEN <<>> ELSE char_to_uppercase(Head(s)) \o Tail(s)

RawField(type_name, is_native, is_vec, is_enum) ==
    [type_name |-> type_name, is_native |-> is_native,
     is_vec |-> is_vec, is_enum |-> is_enum]

\* panic!("Non-native inner types in Vec are not supported yet")
VecPanic == [panic |-> "Non-native inner types in Vec are not supported yet"]

starts_with(s, c) == s # <<>> /\ Head(s) = c
ends_with(s, c) == s # <<>> /\ s[Len(s)] = c

\* get_field_type with the `enum` test moved in front of the `type` test
get_field_type_enum_first(table, has_sub, field_name) ==
    LET type_str == get_str(table, K_type)
        enum_type == get_str(table, K_enum)
    IN  IF enum_type # None
        THEN RawField(enum_type[1], FALSE, FALSE, TRUE)
        ELSE IF type_str # None
        THEN LET ft == to_type(type_str[1])
             IN  IF starts_with(ft, "[") /\ ends_with(ft, "]")
                 THEN LET inner_type == trim(SubSeq(ft, 2, Len(ft) - 1))
                      IN  IF is_native_type(inner_type)
                          THEN RawField(T_VecOpen \o to_type(inner_type) \o T_VecClose,
                                        TRUE, TRUE, FALSE)
                          ELSE VecPanic
                 ELSE RawField(ft, is_native_type(ft), FALSE, FALSE)
        ELSE IF has_sub
        THEN RawField(to_pascal_case(field_name) \o T_Config, FALSE, FALSE, FALSE)
        ELSE RawField(T_String, TRUE, FALSE, FALSE)

get_field_type(table, has_sub, field_name) ==
    LET type_str == get_str(table, K_type)
        field_type == IF type_str = None THEN None ELSE Some(to_type(type_str[1]))
        enum_type == get_str(table, K_enum)
    IN  IF field_type # None
        THEN LET ft == field_type[1]
             IN  IF starts_with(ft, "[") /\ ends_with(ft, "]")
                 THEN LET inner_type == trim(SubSeq(ft, 2, Len(ft) - 1))
                      IN  IF is_native_type(inner_type)
                          THEN RawField(T_VecOpen \o to_type(inner_type) \o T_VecClose,
                                        TRUE, TRUE, FALSE)
                          ELSE VecPanic
                 ELSE RawField(ft, is_native_type(ft), FALSE, FALSE)
        ELSE IF enum_type # None
        THEN RawField(enum_type[1], FALSE, FALSE, TRUE)
        ELSE IF has_sub
        THEN RawField(to_pascal_case(field_name) \o T_Config, FALSE, FALSE, FALSE)
        ELSE RawField(T_String, TRUE, FALSE, FALSE)

(***************************************************************************)
(* Schema resolver of rclap_core/src/lib.rs.                               *)
(***************************************************************************)
lib_to_pascal_case(s) ==
    IF s = <<>> THEN <<>> ELSE char_to_uppercase(Head(s)) \o Tail(s)

lib_get_field_type(table, has_sub, field_name) ==
    LET field_type == get_str(table, K_type)
    IN  IF field_type # None
        THEN field_type[1]
        ELSE IF has_sub
        THEN lib_to_pascal_case(field_name) \o T_Config
        ELSE T_String

\* short_arg without the length filter
short_arg_of_unfiltered(table) ==
    LET s == get_str(table, K_short)
    IN  IF s # None /\ Len(s[1]) >= 1 THEN Some(Head(s[1])) ELSE None

short_arg_of(table) ==
    LET s == get_str(table, K_short)
    IN  IF s # None /\ Len(s[1]) = 1 THEN Some(Head(s[1])) ELSE None

\* optional taken as true whenever the key holds a boolean
optional_of_present(table) ==
    get_bool(table, K_optional) # None

optional_of(table) ==
    LET b == get_bool(table, K_optional)
    IN  IF b # None THEN b[1] ELSE FALSE

\* the id without the parent's id
field_id_flat(name, parent_id) == name

field_id(name, parent_id) ==
    IF parent_id = None THEN name ELSE parent_id[1] \o Dot \o name

reserved_keys == {K_type, K_default, K_doc, K_env, K_optional, K_long, K_short}

\* the keys of the entries that are recursed into, in iteration order
sub_table_keys(table) ==
    SelectSeq(table_iter(table),
              LAMBDA k : k \notin reserved_keys /\ table[k].tag = "Table")

FieldSpec(default, env, long_arg, short_arg) ==
    [kind |-> "FieldSpec", default |-> default, env |-> env,
     long_arg |-> long_arg, short_arg |-> short_arg]

SubtypeSpec(subtype_fields) ==
    [kind |-> "SubtypeSpec", fields |-> subtype_fields]

RECURSIVE table_to_field_spec(_, _, _)
table_to_field_spec(name, table, parent_id) ==
    LET default == get_str(table, K_default)
        doc == get_str(table, K_doc)
        env == get_str(table, K_env)
        long_arg == get_str(table, K_long)
        short_arg == short_arg_of(table)
        optional == optional_of(table)
        id == field_id(name, parent_id)
        subs == sub_table_keys(table)
        subtype_fields ==
            [i \in 1..Len(subs) |->
                table_to_field_spec(subs[i], table[subs[i]].tbl, Some(id))]
        field_type == lib_get_field_type(table, Len(subs) # 0, name)
        variant == IF Len(subs) = 0
                   THEN FieldSpec(default, env, long_arg, short_arg)
                   ELSE SubtypeSpec(subtype_fields)
    IN  [name |-> name, id |-> id, field_type |-> field_type, doc |-> doc,
         optional |-> optional, variant |-> variant]

\* a conversion that makes a field of every top-level entry
from_generic_every_entry(fieldsMap, order) ==
    [i \in 1..Len(order) |->
        table_to_field_spec(order[i],
                            IF fieldsMap[order[i]].tag = "Table"
                            THEN fieldsMap[order[i]].tbl ELSE EmptyTable,
                            None)]

\* impl From<GenericConfigSpec> for ConfigSpec; `order` is the order in which
\* the HashMap of top-level entries is iterated
from_generic(fieldsMap, order) ==
    LET tables == SelectSeq(order, LAMBDA k : fieldsMap[k].tag = "Table")
    IN  [i \in 1..Len(tables) |->
            table_to_field_spec(tables[i], fieldsMap[tables[i]].tbl, None)]

\* std's HashMap is seeded per instance: any order of the keys can come out
hash_orders(fieldsMap) ==
    LET n == Cardinality(DOMAIN fieldsMap)
    IN  {o \in [1..n -> DOMAIN fieldsMap] :
            \A i, j \in 1..n : i # j => o[i] # o[j]}

IsPanic(r) == "panic" \in DOMAIN r

(***************************************************************************)
(* Binding generator of rclap_derive/src/lib.rs.  A TokenStream is the     *)
(* sequence of its tokens, a token is its text.                            *)
(***************************************************************************)
WordChars == {Lower[i] : i \in 1..Len(Lower)} \cup {Upper[i] : i \in 1..Len(Upper)}
                \cup {Digits[i] : i \in 1..Len(Digits)} \cup {"_"}
DigitChars == {Digits[i] : i \in 1..Len(Digits)}

RECURSIVE WordLen(_)
WordLen(s) == IF s # <<>> /\ Head(s) \in WordChars THEN 1 + WordLen(Tail(s)) ELSE 0

\* the tokens of a text: identifiers and literals are maximal words (a
\* number may continue with `.` and digits), any other character is one
\* punctuation or delimiter token, blanks separate
RECURSIVE Lex(_)
Lex(s) ==
    IF s = <<>> THEN <<>>
    ELSE IF Head(s) = " " THEN Lex(Tail(s))
    ELSE IF Head(s) \in WordChars
    THEN LET n == WordLen(s)
             m == IF /\ Head(s) \in DigitChars
                     /\ Len(s) >= n + 2
                     /\ s[n + 1] = "."
                     /\ s[n + 2] \in DigitChars
                  THEN n + 1 + WordLen(SubSeq(s, n + 2, Len(s)))
                  ELSE n
         IN  <<SubSeq(s, 1, m)>> \o Lex(SubSeq(s, m + 1, Len(s)))
    ELSE <<<<Head(s)>>>> \o Lex(Tail(s))

\* the nesting depth after reading s from depth d, -1 when a delimiter
\* closes nothing
RECURSIVE Depth(_, _)
Depth(s, d) ==
    IF s = <<>> THEN d
    ELSE IF Head(s) = "[" THEN Depth(Tail(s), d + 1)
    ELSE IF Head(s) = "]" THEN (IF d = 0 THEN -1 ELSE Depth(Tail(s), d - 1))
    ELSE Depth(Tail(s), d)

\* str::parse::<TokenStream>(): Err on unbalanced delimiters
parse_tokens(s) == IF Depth(s, 0) = 0 THEN Some(Lex(s)) ELSE None

\* Ident::new accepts a non-empty word that does not start with a digit
is_ident(s) ==
    /\ s # <<>>
    /\ \A i \in 1..Len(s) : s[i] \in WordChars
    /\ Head(s) \notin DigitChars

Panic(msg) == [panic |-> msg]

RECURSIVE NatText(_)
NatText(n) == IF n < 10 THEN <<Digits[n + 1]>>
              ELSE NatText(n \div 10) \o <<Digits[(n % 10) + 1]>>

\* Literal::i64_unsuffixed
i64_unsuffixed(n) == IF n < 0 THEN <<"-">> \o NatText(-n) ELSE NatText(n)

Tok_Option == <<"O","p","t","i","o","n">>
Tok_usize == <<"u","s","i","z","e">>
Tok_true == <<"t","r","u","e">>
Tok_false == <<"f","a","l","s","e">>
V_String == T_VecOpen \o T_String \o T_VecClose
V_char == T_VecOpen \o T_char \o T_VecClose
V_i64 == T_VecOpen \o T_i64 \o T_VecClose
V_f64 == T_VecOpen \o T_f64 \o T_VecClose
V_bool == T_VecOpen \o T_bool \o T_VecClose
V_usize == T_VecOpen \o Tok_usize \o T_VecClose

Param(key, value) == [key |-> key, value |-> value]
StrLit(s) == [str |-> s]
CharLit(c) == [chr |-> c]
Tokens(t) == [tokens |-> t]

FirstPanic(seq) == seq[CHOOSE i \in 1..Len(seq) :
                          IsPanic(seq[i]) /\ \A j \in 1..(i - 1) : ~IsPanic(seq[j])]
AnyPanic(seq) == \E i \in 1..Len(seq) : IsPanic(seq[i])

\* the default of a VecSpec as one `default_values_t` parameter
vec_default_param(field, default_value) ==
    IF default_value.tag # "Array"
    THEN Panic("called Option::unwrap() on a None value")
    ELSE
    LET default == default_value.arr
        each(ok(_), lit(_), list) ==
            IF \E i \in 1..Len(default) : ~ok(default[i])
            THEN Panic("called Option::unwrap() on a None value")
            ELSE Param("default_values_t",
                       [list |-> list,
                        elems |-> [i \in 1..Len(default) |-> lit(default[i])]])
        isStr(v) == v.tag = "String"
        isStr1(v) == v.tag = "String" /\ v.str # <<>>
        isInt(v) == v.tag = "Integer"
        isFloat(v) == v.tag = "Float"
        isBool(v) == v.tag = "Boolean"
        isNat(v) == v.tag = "Integer" /\ v.int >= 0
        strLit(v) == [to_string |-> v.str]
        chrLit(v) == CharLit(Head(v.str))
        intLit(v) == Tokens(<<i64_unsuffixed(v.int)>>)
        floatLit(v) == Tokens(<<v.text>>)
        boolLit(v) == Tokens(<<IF v.bool THEN Tok_true ELSE Tok_false>>)
        usizeLit(v) == Tokens(<<NatText(v.int) \o Tok_usize>>)
    IN  IF field.field_type = V_String \/ field.field_type = PATH_BUF
        THEN each(isStr, strLit, "vec!")
        ELSE IF field.field_type = V_char THEN each(isStr1, chrLit, "vec!")
        ELSE IF field.field_type = V_i64 THEN each(isInt, intLit, "array")
        ELSE IF field.field_type = V_f64 THEN each(isFloat, floatLit, "array")
        ELSE IF field.field_type = V_bool THEN each(isBool, boolLit, "array")
        ELSE IF field.field_type = V_usize THEN each(isNat, usizeLit, "array")
        ELSE Panic("Unsupported Vec default type")

\* flag_params pushing the delimiter of a vector whether or not env is set
flag_params_delimiter_always(f, id, delimiter) ==
    (IF f.env # None THEN <<Param("env", StrLit(f.env[1]))>> ELSE <<>>)
    \o (IF delimiter THEN <<Param("value_delimiter", CharLit(","))>> ELSE <<>>)
    \o (IF f.long_arg # None
        THEN <<Param("long", StrLit(f.long_arg[1]))>>
        ELSE <<Param("long", StrLit(id))>>)
    \o (IF f.short_arg # None
        THEN <<Param("short", CharLit(f.short_arg[1]))>>
        ELSE <<>>)

\* env, long and short as pushed by the VecSpec, FieldSpec and EnumSpec arms
flag_params(f, id, delimiter) ==
    (IF f.env # None
     THEN <<Param("env", StrLit(f.env[1]))>>
             \o (IF delimiter THEN <<Param("value_delimiter", CharLit(","))>> ELSE <<>>)
     ELSE <<>>)
    \o (IF f.long_arg # None
        THEN <<Param("long", StrLit(f.long_arg[1]))>>
        ELSE <<Param("long", StrLit(id))>>)
    \o (IF f.short_arg # None
        THEN <<Param("short", CharLit(f.short_arg[1]))>>
        ELSE <<>>)

\* the default of a FieldSpec: <<>>, one parameter, or a panic
field_default_param(field, f) ==
    IF f.default = None THEN <<>>
    ELSE LET default == f.default[1]
         IN  IF field.field_type = T_String \/ field.field_type = PATH_BUF
                    \/ field.optional
             THEN <<Param("default_value", StrLit(default))>>
             ELSE IF field.field_type = T_char
             THEN IF default = <<>>
                  THEN <<Panic("called Option::unwrap() on a None value")>>
                  ELSE <<Param("default_value_t", CharLit(Head(default)))>>
             ELSE IF parse_tokens(default) = None
                  THEN <<Panic("Invalid default value")>>
                  ELSE <<Param("default_value_t", Tokens(parse_tokens(default)[1]))>>

\* a path such as a::B contains "::"
contains_path_sep(s) ==
    \E i \in 1..(Len(s) - 1) : s[i] = ":" /\ s[i + 1] = ":"

\* the default of an EnumSpec
enum_default_param(field, e) ==
    IF e.default = None THEN <<>>
    ELSE LET default == e.default[1]
         IN  IF contains_path_sep(field.field_type)
             THEN IF parse_tokens(field.field_type) = None
                     \/ parse_tokens(default) = None
                  THEN <<Panic("Invalid enum path")>>
                  ELSE <<Param("default_value_t",
                               Tokens(parse_tokens(field.field_type)[1]
                                        \o <<<<":">>, <<":">>>>
                                        \o parse_tokens(default)[1]))>>
             ELSE IF ~is_ident(field.field_type)
                  THEN <<Panic("Invalid field type")>>
                  ELSE IF ~is_ident(default)
                  THEN <<Panic("not a valid Ident")>>
                  ELSE <<Param("default_value_t",
                               Tokens(<<field.field_type, <<":">>, <<":">>, default>>))>>

ArgAttr(arg_params) == [attr |-> "arg", params |-> arg_params]
DocAttr(doc) == [attr |-> "doc", params |-> <<StrLit(doc)>>]
FlattenAttr == [attr |-> "command", params |-> <<"flatten">>]

\* doc_and_id_params pushing the id before the help text
doc_and_id_params_id_first(field) ==
    <<Param("id", StrLit(field.id))>>
    \o (IF field.doc # None THEN <<Param("help", StrLit(field.doc[1]))>> ELSE <<>>)

\* the parameters pushed before the match on the variant: help, then id
doc_and_id_params(field) ==
    (IF field.doc # None THEN <<Param("help", StrLit(field.doc[1]))>> ELSE <<>>)
    \o <<Param("id", StrLit(field.id))>>

\* variant_attributes with an ExternalSpec also getting an argument list
variant_attributes_external_args(f, arg_params) ==
    IF f.kind = "SubtypeSpec" THEN <<FlattenAttr>>
    ELSE IF f.kind = "ExternalSpec" THEN <<ArgAttr(arg_params), FlattenAttr>>
    ELSE <<ArgAttr(arg_params)>>

\* the attribute pushed by each arm of the match on the variant
variant_attributes(f, arg_params) ==
    IF f.kind \in {"SubtypeSpec", "ExternalSpec"}
    THEN <<FlattenAttr>>
    ELSE <<ArgAttr(arg_params)>>

\* the closure mapped over the fields by generate_single_struct
field_definition(field) ==
    IF ~is_ident(field.name) THEN Panic("not a valid Ident")
    ELSE IF parse_tokens(field.field_type) = None THEN Panic("Invalid type in config")
    ELSE
    LET field_type == parse_tokens(field.field_type)[1]
        doc_attr == IF field.doc # None THEN <<DocAttr(field.doc[1])>> ELSE <<>>
        arg_params0 == doc_and_id_params(field)
        f == field.variant
        arg_params ==
            CASE f.kind = "VecSpec" ->
                    arg_params0
                    \o (IF f.default # None
                        THEN <<vec_default_param(field, f.default[1])>> ELSE <<>>)
                    \o flag_params(f, field.id, TRUE)
              [] f.kind = "FieldSpec" ->
                    arg_params0 \o field_default_param(field, f)
                    \o flag_params(f, field.id, FALSE)
              [] f.kind = "EnumSpec" ->
                    arg_params0 \o <<[key |-> "value_enum"]>>
                    \o enum_default_param(field, f)
                    \o flag_params(f, field.id, FALSE)
              [] OTHER -> <<>>
        attributes == doc_attr \o variant_attributes(f, arg_params)
        ty == IF field.optional
              THEN <<Tok_Option, <<"<">>>> \o field_type \o <<<<">">>>>
              ELSE field_type
    IN  IF AnyPanic(arg_params) THEN FirstPanic(arg_params)
        ELSE [attributes |-> attributes, name |-> field.name, ty |-> ty]

generate_single_struct(struct_ident, fs) ==
    LET field_definitions == [i \in 1..Len(fs) |-> field_definition(fs[i])]
    IN  IF AnyPanic(field_definitions) THEN FirstPanic(field_definitions)
        ELSE [item |-> "struct", ident |-> struct_ident,
              derives |-> <<"Debug", "Clone", "PartialEq", "Parser">>,
              fields |-> field_definitions]

generate_enum(enum_ident, enum_spec) ==
    IF \E i \in 1..Len(enum_spec.variants) : ~is_ident(enum_spec.variants[i])
    THEN Panic("not a valid Ident")
    ELSE [item |-> "enum", ident |-> enum_ident,
          derives |-> <<"Debug", "Clone", "PartialEq", "Eq", "PartialOrd", "Ord",
                        "ValueEnum">>,
          rename_all |-> "verbatim",
          variants |-> enum_spec.variants]

\* collect_subtypes pushing the struct of a SubtypeSpec after the
\* declarations of its fields
RECURSIVE collect_subtypes_children_first(_)
collect_subtypes_children_first(fs) ==
    IF fs = <<>> THEN <<>>
    ELSE
    LET field == Head(fs)
        pushed ==
            CASE field.variant.kind = "SubtypeSpec" ->
                    IF ~is_ident(field.field_type)
                    THEN <<Panic("not a valid Ident")>>
                    ELSE collect_subtypes_children_first(field.variant.fields)
                           \o <<generate_single_struct(field.field_type,
                                                       field.variant.fields)>>
              [] field.variant.kind = "EnumSpec" ->
                    IF field.variant.variants = <<>> THEN <<>>
                    ELSE IF ~is_ident(field.field_type)
                    THEN <<Panic("not a valid Ident")>>
                    ELSE <<generate_enum(field.field_type, field.variant)>>
              [] OTHER -> <<>>
    IN  pushed \o collect_subtypes_children_first(Tail(fs))

\* the items pushed by collect_subtypes, up to and including a first panic
RECURSIVE collect_subtypes(_)
collect_subtypes(fs) ==
    IF fs = <<>> THEN <<>>
    ELSE
    LET field == Head(fs)
        pushed ==
            CASE field.variant.kind = "SubtypeSpec" ->
                    IF ~is_ident(field.field_type)
                    THEN <<Panic("not a valid Ident")>>
                    ELSE <<generate_single_struct(field.field_type,
                                                  field.variant.fields)>>
                           \o collect_subtypes(field.variant.fields)
              [] field.variant.kind = "EnumSpec" ->
                    IF field.variant.variants = <<>> THEN <<>>
                    ELSE IF ~is_ident(field.field_type)
                    THEN <<Panic("not a valid Ident")>>
                    ELSE <<generate_enum(field.field_type, field.variant)>>
              [] OTHER -> <<>>
    IN  pushed \o collect_subtypes(Tail(fs))

generate_struct(config_fields, struct_name, export) ==
    LET main_struct == generate_single_struct(struct_name, config_fields)
        all_structs == <<main_struct>> \o collect_subtypes(config_fields)
    IN  IF AnyPanic(all_structs) THEN FirstPanic(all_structs)
        ELSE [mod |-> to_lowercase(struct_name), items |-> all_structs,
              export |-> export]

(***************************************************************************)
(* The documents of the model: toml::from_str builds the value tree entry  *)
(* by entry.                                                               *)
(***************************************************************************)
S_p == <<"p">>
S_pq == <<"p","q">>
S_E == <<"E">>
S_T == <<"T">>
S_8 == <<"8">>
S_d == <<"d">>
S_l == <<"l">>
S_V == <<"V">>
S_vec_int == <<"[", "i","n","t", "]">>
S_vec_T == <<"[", "T", "]">>

FieldKeys == {<<"a">>, <<"b">>, <<"a", ".", "b">>}
ReservedWords == {K_type, K_default, K_doc, K_env, K_optional, K_long, K_short, K_enum}

ValuesFor(k) ==
    {TableV(EmptyTable)} \cup
    CASE k = K_type -> {StringV(T_int), StringV(S_vec_int), StringV(S_vec_T),
                        StringV(S_T), IntegerV(1)}
      [] k = K_enum -> {StringV(S_E), IntegerV(1)}
      [] k = K_short -> {StringV(<<>>), StringV(S_p), StringV(S_pq), IntegerV(1)}
      [] k = K_optional -> {BooleanV(TRUE), BooleanV(FALSE), StringV(S_p)}
      [] k = K_default -> {StringV(S_8), IntegerV(1)}
      [] k = K_doc -> {StringV(S_d), IntegerV(1)}
      [] k = K_env -> {StringV(S_V), IntegerV(1)}
      [] k = K_long -> {StringV(S_l), IntegerV(1)}
      [] OTHER -> {StringV(S_p), ArrayV(<<IntegerV(1)>>)}

RECURSIVE TablePaths(_)
TablePaths(t) ==
    {<<>>} \cup
    UNION { { <<k>> \o p : p \in TablePaths(t[k].tbl) } :
            k \in {x \in DOMAIN t : t[x].tag = "Table"} }

RECURSIVE TableAt(_, _)
TableAt(t, p) == IF p = <<>> THEN t ELSE TableAt(t[Head(p)].tbl, Tail(p))

RECURSIVE EntryCount(_)
EntryCount(t) ==
    IF DOMAIN t = {} THEN 0
    ELSE LET k == CHOOSE x \in DOMAIN t : TRUE
             rest == [x \in DOMAIN t \ {k} |-> t[x]]
         IN  1 + (IF t[k].tag = "Table" THEN EntryCount(t[k].tbl) ELSE 0)
               + EntryCount(rest)

RECURSIVE InsertAt(_, _, _, _)
InsertAt(t, p, k, v) ==
    IF p = <<>>
    THEN [x \in DOMAIN t \cup {k} |-> IF x = k THEN v ELSE t[x]]
    ELSE [x \in DOMAIN t |->
            IF x = Head(p) THEN TableV(InsertAt(t[x].tbl, Tail(p), k, v)) ELSE t[x]]

StructNames == {<<"M", "y", "C", "o", "n", "f", "i", "g">>}

FieldNames == {<<>>, <<"a">>, <<"A">>, <<"r", "_", "c">>}

(***************************************************************************)
(* The state machine.                                                      *)
(***************************************************************************)
Init ==
    /\ generic = EmptyTable
    /\ fields = None
    /\ earlier = None
    /\ raw = None
    /\ generated = None
    /\ loaded = None
    /\ made = None

\* toml::from_str reads one more entry of the document
ParseEntry ==
    /\ fields = None
    /\ raw = None
    /\ loaded = None
    /\ EntryCount(generic) < MaxEntries
    /\ \E p \in TablePaths(generic) :
       \E k \in (IF p = <<>> THEN FieldKeys ELSE FieldKeys \cup ReservedWords)
                    \ DOMAIN TableAt(generic, p) :
       \E v \in ValuesFor(k) :
            generic' = InsertAt(generic, p, k, v)
    /\ UNCHANGED <<fields, earlier, raw, generated, loaded, made>>

\* generic_config_spec.into(); the document can be converted a second time
Convert ==
    /\ raw = None
    /\ earlier = None
    /\ generated = None
    /\ \E order \in hash_orders(generic) :
            fields' = Some(from_generic(generic, order))
    /\ earlier' = fields
    /\ UNCHANGED <<generic, raw, generated, loaded, made>>

\* utils::get_field_type on a table of the document
GetFieldType ==
    /\ fields = None
    /\ raw = None
    /\ \E p \in TablePaths(generic) \ {<<>>} :
       \E has_sub \in BOOLEAN :
       \E field_name \in FieldNames :
            raw' = Some([table |-> TableAt(generic, p), has_sub |-> has_sub,
                         field_name |-> field_name,
                         result |-> get_field_type(TableAt(generic, p), has_sub,
                                                   field_name)])
    /\ UNCHANGED <<generic, fields, earlier, generated, loaded, made>>

\* generate_struct on the converted document, for `struct MyConfig`
GenerateStruct ==
    /\ fields # None
    /\ generated = None
    /\ \E struct_name \in StructNames :
       \E export \in BOOLEAN :
            generated' = Some(generate_struct(fields[1], struct_name, export))
    /\ UNCHANGED <<generic, fields, earlier, raw, loaded, made>>

Next == ParseEntry \/ Convert \/ GetFieldType \/ GenerateStruct

Spec == Init /\ [][Next]_vars

(***************************************************************************)
(* Vocabulary of the properties.                                           *)
(***************************************************************************)
\* the fields of a resolved tree, each with the keys on its path from the
\* document root
RECURSIVE Located(_, _)
Located(fs, prefix) ==
    UNION { {[path |-> prefix \o <<fs[i].name>>, field |-> fs[i]]} \cup
            (IF fs[i].variant.kind = "SubtypeSpec"
             THEN Located(fs[i].variant.fields, prefix \o <<fs[i].name>>)
             ELSE {}) : i \in 1..Len(fs) }

Resolved == fields # None
AllLocated == IF Resolved THEN Located(fields[1], <<>>) ELSE {}

RECURSIVE JoinDot(_)
JoinDot(path) ==
    IF Len(path) = 1 THEN path[1]
    ELSE JoinDot(SubSeq(path, 1, Len(path) - 1)) \o <<".">> \o path[Len(path)]

HasStr(table, key) == key \in DOMAIN table /\ table[key].tag = "String"

\* the table-valued entries of a table whose key is none of the eight
\* reserved keys
PlainSubTables(table) ==
    {k \in DOMAIN table \ ReservedWords : table[k].tag = "Table"}

Without(table, key) == [x \in DOMAIN table \ {key} |-> table[x]]

(***************************************************************************)
(* Properties.                                                             *)
(***************************************************************************)

\* C1: a table with a string `type` and a string `enum` is resolved by
\* utils::get_field_type from its `type` alone: the result is never an enum,
\* its type name is the normalised `type` (or a Vec of the bracketed element),
\* and it is the result for the same table without `enum`, whatever has_sub
\* and the field name are.
TypeOverEnum ==
    raw # None =>
        LET c == raw[1]
        IN  (HasStr(c.table, K_type) /\ HasStr(c.table, K_enum)) =>
                /\ c.result = get_field_type(Without(c.table, K_enum),
                                             ~c.has_sub, <<>>)
                /\ ~IsPanic(c.result) =>
                      /\ c.result.is_enum = FALSE
                      /\ c.result.type_name # c.table[K_enum].str
                      /\ ~c.result.is_vec =>
                            c.result.type_name = to_type(c.table[K_type].str)
                      /\ c.result.is_vec =>
                            SubSeq(c.result.type_name, 1, 4) = T_VecOpen

WitnessTypeOverEnum ==
    /\ raw # None
    /\ HasStr(raw[1].table, K_type)
    /\ HasStr(raw[1].table, K_enum)
    /\ raw[1].has_sub
    /\ ~IsPanic(raw[1].result)
    /\ raw[1].result.type_name = T_i64
    /\ raw[1].result.is_enum = FALSE

\* C2: a table with a string `enum`, no `type` and at least one non-reserved
\* sub-table resolves as an enum named by `enum`, not as a nested struct,
\* both in utils::get_field_type and in the Spec built by the resolver.
EnumOverNesting ==
    /\ raw # None =>
          LET c == raw[1]
          IN  (/\ HasStr(c.table, K_enum)
               /\ K_type \notin DOMAIN c.table
               /\ PlainSubTables(c.table) # {}) =>
                  /\ c.result.is_enum
                  /\ c.result.type_name = c.table[K_enum].str
    /\ \A l \in AllLocated :
          LET t == TableAt(generic, l.path)
          IN  (/\ HasStr(t, K_enum)
               /\ K_type \notin DOMAIN t
               /\ PlainSubTables(t) # {}) =>
                  /\ l.field.variant.kind # "SubtypeSpec"
                  /\ l.field.field_type = t[K_enum].str

\* C3: the id of every resolved field is the keys on its path from the
\* document root joined with `.`: a root field's id is its key, a child's id
\* is its parent's id, `.`, and the child's key.
IdIsPath ==
    \A l \in AllLocated :
        /\ l.path \in TablePaths(generic)
        /\ l.field.name = l.path[Len(l.path)]
        /\ l.field.id = JoinDot(l.path)
        /\ Len(l.path) = 1 => l.field.id = l.path[1]
        /\ Len(l.path) > 1 =>
              \E parent \in AllLocated :
                  /\ parent.path = SubSeq(l.path, 1, Len(l.path) - 1)
                  /\ l.field.id = parent.field.id \o <<".">> \o l.path[Len(l.path)]

WitnessIdIsPath ==
    \E l \in AllLocated :
        /\ Len(l.path) = 3
        /\ l.field.id = <<"a", ".", "b", ".", "a">>

\* C4: any two distinct fields of a resolved tree have different ids.
IdsUnique ==
    \A l1, l2 \in AllLocated :
        l1.path # l2.path => l1.field.id # l2.field.id

\* C5: converting the same document twice yields the same list of fields,
\* in the same order.
Deterministic ==
    earlier # None => fields = earlier

\* C6: no key among type, default, doc, env, optional, long, short, enum
\* becomes a child field, and a table with only such keys has no children.
ReservedNeverChild ==
    \A l \in AllLocated :
        /\ Len(l.path) > 1 => l.field.name \notin ReservedWords
        /\ DOMAIN TableAt(generic, l.path) \subseteq ReservedWords =>
              l.field.variant.kind = "FieldSpec"

\* C7: for a field that carries flags, a `short` string of one character
\* gives that character, a `short` string of any other length gives no short
\* flag, and every top-level table is resolved whatever its `short` is.
ShortValidated ==
    /\ \A l \in AllLocated :
          LET t == TableAt(generic, l.path)
          IN  (l.field.variant.kind = "FieldSpec" /\ HasStr(t, K_short)) =>
                 /\ Len(t[K_short].str) = 1 =>
                       l.field.variant.short_arg = <<t[K_short].str[1]>>
                 /\ Len(t[K_short].str) # 1 =>
                       l.field.variant.short_arg = <<>>
    /\ Resolved =>
          \A k \in DOMAIN generic :
              generic[k].tag = "Table" =>
                  \E i \in 1..Len(fields[1]) : fields[1][i].name = k

WitnessShortValidated ==
    \E l \in AllLocated :
        /\ HasStr(TableAt(generic, l.path), K_short)
        /\ TableAt(generic, l.path)[K_short].str = S_pq
        /\ l.field.variant.kind = "FieldSpec"
        /\ l.field.variant.short_arg = <<>>

IsPascalConfig(name, tn) ==
    /\ Len(tn) = Len(name) + 6
    /\ SubSeq(tn, Len(name) + 1, Len(tn)) = <<"C", "o", "n", "f", "i", "g">>
    /\ name # <<>> =>
          /\ SubSeq(tn, 2, Len(name)) = Tail(name)
          /\ char_to_lowercase(tn[1]) = char_to_lowercase(name[1])
          /\ \A i \in 1..Len(Lower) : Lower[i] # tn[1]

\* C9: with neither `type` nor `enum`, the type name is the field name with
\* its first character upper-cased, the rest unchanged, followed by `Config`
\* when there are sub-tables, and is the leaf type `String` when there are
\* none; the empty name gives `Config`.
InferredTypeName ==
    /\ raw # None =>
          LET c == raw[1]
          IN  (K_type \notin DOMAIN c.table /\ K_enum \notin DOMAIN c.table) =>
                 /\ c.has_sub =>
                       /\ IsPascalConfig(c.field_name, c.result.type_name)
                       /\ ~c.result.is_native
                       /\ ~c.result.is_vec
                       /\ ~c.result.is_enum
                 /\ ~c.has_sub =>
                       c.result = [type_name |-> <<"S", "t", "r", "i", "n", "g">>,
                                   is_native |-> TRUE, is_vec |-> FALSE,
                                   is_enum |-> FALSE]
    /\ \A l \in AllLocated :
          LET t == TableAt(generic, l.path)
          IN  (K_type \notin DOMAIN t /\ K_enum \notin DOMAIN t) =>
                 /\ l.field.variant.kind = "SubtypeSpec" =>
                       IsPascalConfig(l.field.name, l.field.field_type)
                 /\ l.field.variant.kind = "FieldSpec" =>
                       l.field.field_type = <<"S", "t", "r", "i", "n", "g">>

WitnessInferredTypeName ==
    /\ raw # None
    /\ K_type \notin DOMAIN raw[1].table
    /\ K_enum \notin DOMAIN raw[1].table
    /\ raw[1].has_sub
    /\ raw[1].field_name = <<"r", "_", "c">>
    /\ raw[1].result.type_name = <<"R", "_", "c", "C", "o", "n", "f", "i", "g">>

\* C10: a resolved field is nested exactly when its table has a table-valued
\* entry under a non-reserved key, and a nested field with an explicit
\* `type` is named by that value and has the resolved sub-tables as children.
NestedIffSubTables ==
    \A l \in AllLocated :
        LET t == TableAt(generic, l.path)
        IN  /\ (l.field.variant.kind = "SubtypeSpec") <=> (PlainSubTables(t) # {})
            /\ (HasStr(t, K_type) /\ PlainSubTables(t) # {}) =>
                  /\ l.field.variant.kind = "SubtypeSpec"
                  /\ l.field.field_type = t[K_type].str
                  /\ {l.field.variant.fields[i].name :
                          i \in 1..Len(l.field.variant.fields)} = PlainSubTables(t)

\* the lists of sibling fields in the order in which generate_struct
\* declares a struct for them, below the root list
RECURSIVE NestedLists(_)
NestedLists(fs) ==
    IF fs = <<>> THEN <<>>
    ELSE (IF Head(fs).variant.kind = "SubtypeSpec"
          THEN <<Head(fs).variant.fields>> \o NestedLists(Head(fs).variant.fields)
          ELSE <<>>)
         \o NestedLists(Tail(fs))

IsWrapped(ty) ==
    /\ Len(ty) >= 3
    /\ ty[1] = <<"O", "p", "t", "i", "o", "n">>
    /\ ty[2] = <<"<">>
    /\ ty[Len(ty)] = <<">">>

\* C8: a resolved field is optional exactly when its table holds
\* `optional = true`, and the generated declaration of a field has the type
\* Option<T> exactly when the field is optional, with or without a default.
OptionalPropagates ==
    /\ \A l \in AllLocated :
          LET t == TableAt(generic, l.path)
          IN  l.field.optional <=>
                 /\ K_optional \in DOMAIN t
                 /\ t[K_optional].tag = "Boolean"
                 /\ t[K_optional].bool
    /\ (generated # None /\ ~IsPanic(generated[1])) =>
          LET lists == <<fields[1]>> \o NestedLists(fields[1])
              items == generated[1].items
          IN  /\ Len(items) = Len(lists)
              /\ \A k \in 1..Len(lists) :
                    /\ Len(items[k].fields) = Len(lists[k])
                    /\ \A i \in 1..Len(lists[k]) :
                          /\ items[k].fields[i].name = lists[k][i].name
                          /\ IsWrapped(items[k].fields[i].ty) <=> lists[k][i].optional

WitnessOptionalPropagates ==
    /\ generated # None
    /\ ~IsPanic(generated[1])
    /\ <<"a">> \in DOMAIN generic
    /\ generic[<<"a">>] = TableV((K_optional :> BooleanV(TRUE))
                                   @@ (K_default :> StringV(S_8)))
    /\ generated[1].items[1].fields[1].ty
          = <<<<"O", "p", "t", "i", "o", "n">>, <<"<">>,
              <<"S", "t", "r", "i", "n", "g">>, <<">">>>>

(***************************************************************************)
(* The type resolver on its own: utils::get_field_type applied to a table  *)
(* whose `type` is drawn from the texts below.                             *)
(***************************************************************************)

\* names of element types: the names of utils.rs, two of them in another
\* case, integer and float names of other widths, and an unknown name
ElementTexts ==
    {T_int, T_float, T_bool, T_string, T_path, T_char,
     T_i64, T_f64, T_String, PATH_BUF,
     <<"I","n","t">>, <<"S","T","R","I","N","G">>,
     <<"u","1","6">>, <<"u","3","2">>, Tok_usize, <<"i","3","2">>, <<"f","3","2">>,
     S_T}

Bracket(s) == <<"[">> \o s \o <<"]">>

TypeTexts ==
    ElementTexts
    \cup {Bracket(e) : e \in ElementTexts}
    \cup {Bracket(<<>>), Bracket(<<" ">>), Bracket(<<" ">> \o T_int \o <<" ">>),
          <<"[">>, <<"[">> \o T_int, T_int \o <<"]">>}

TypeTables ==
    {(K_type :> StringV(t)) : t \in TypeTexts}
    \cup {(K_type :> StringV(t)) @@ (K_enum :> StringV(S_E)) : t \in TypeTexts}
    \cup {(K_type :> IntegerV(1)), (K_enum :> StringV(S_E)), EmptyTable}

InitType ==
    /\ generic \in {(<<"a">> :> TableV(t)) : t \in TypeTables}
    /\ fields = None
    /\ earlier = None
    /\ raw = None
    /\ generated = None
    /\ loaded = None
    /\ made = None

NextType == GetFieldType

SpecType == InitType /\ [][NextType]_vars

\* the element names utils.rs accepts, each with its normalised name
NormalisedElement ==
    {<<T_int, T_i64>>, <<<<"I","n","t">>, T_i64>>, <<T_i64, T_i64>>,
     <<T_float, T_f64>>, <<T_f64, T_f64>>,
     <<T_bool, T_bool>>,
     <<T_string, T_String>>, <<<<"S","T","R","I","N","G">>, T_String>>, <<T_String, T_String>>,
     <<T_path, PATH_BUF>>, <<PATH_BUF, PATH_BUF>>,
     <<T_char, T_char>>}

\* the names of the native-type set of the specification that occur among
\* the inputs: integers of the standard widths, floats, bool, text, path, char
NativeSetNames ==
    {p[1] : p \in NormalisedElement}
    \cup {<<"u","1","6">>, <<"u","3","2">>, Tok_usize, <<"i","3","2">>, <<"f","3","2">>}

IsBracketed(t) == Len(t) >= 2 /\ t[1] = "[" /\ t[Len(t)] = "]"

\* the element name of a bracketed type: from its first to its last
\* non-blank character
ElementName(t) ==
    LET inner == SubSeq(t, 2, Len(t) - 1)
        marks == {i \in 1..Len(inner) : inner[i] # " "}
    IN  IF marks = {} THEN <<>>
        ELSE SubSeq(inner,
                    CHOOSE i \in marks : \A j \in marks : i <= j,
                    CHOOSE i \in marks : \A j \in marks : i >= j)

WitnessVectorPanic ==
    /\ raw # None
    /\ HasStr(raw[1].table, K_type)
    /\ raw[1].table[K_type].str = <<"[", "T", "]">>
    /\ IsPanic(raw[1].result)

\* C12: a type name is classified native exactly when it is in the
\* native-type set (integers of the standard widths, floats, bool, text,
\* path, char): as a leaf type it is reported with is_native = TRUE, as the
\* element of a bracketed type it is accepted and gives a vector, and a name
\* outside the set is not native.
NativeTypeSet ==
    raw # None =>
        LET c == raw[1]
            ty == c.table[K_type].str
        IN  HasStr(c.table, K_type) =>
               /\ (~IsBracketed(ty) /\ ty \in NativeSetNames) =>
                     ~IsPanic(c.result) /\ c.result.is_native
               /\ (~IsBracketed(ty) /\ ty \notin NativeSetNames) =>
                     ~IsPanic(c.result) /\ ~c.result.is_native
               /\ (IsBracketed(ty) /\ ElementName(ty) \in NativeSetNames) =>
                     ~IsPanic(c.result) /\ c.result.is_vec /\ c.result.is_native
               /\ (IsBracketed(ty) /\ ElementName(ty) \notin NativeSetNames) =>
                     IsPanic(c.result)

(***************************************************************************)
(* Specification tree of rclap_core/src/ast.rs, the tree the generator     *)
(* matches on.                                                             *)
(***************************************************************************)
\* a float is kept as the text Literal::f64_unsuffixed prints for it
FloatV(t) == [tag |-> "Float", text |-> t]

Field(default, env, long_arg, short_arg, optional) ==
    [kind |-> "FieldSpec", default |-> default, env |-> env,
     long_arg |-> long_arg, short_arg |-> short_arg, optional |-> optional]

SubField(specs) == [kind |-> "SubtypeSpec", fields |-> specs]

ExternalStruct(long_arg, short_arg) ==
    [kind |-> "ExternalSpec", long_arg |-> long_arg, short_arg |-> short_arg]

EnumField(env, long_arg, short_arg, optional, enum_name, variants, default) ==
    [kind |-> "EnumSpec", env |-> env, long_arg |-> long_arg,
     short_arg |-> short_arg, optional |-> optional, enum_name |-> enum_name,
     variants |-> variants, default |-> default]

VecField(default, env, long_arg, short_arg, optional) ==
    [kind |-> "VecSpec", default |-> default, env |-> env,
     long_arg |-> long_arg, short_arg |-> short_arg, optional |-> optional]

\* a constructor that makes no enumeration field optional
Spec_new_enum_required(toml_tag_name, id, field_type, doc, variant) ==
    LET name == toml_tag_name
        optional == CASE variant.kind = "FieldSpec" -> variant.optional
                      [] variant.kind = "VecSpec" -> variant.optional
                      [] OTHER -> FALSE
    IN  [toml_tag_name |-> toml_tag_name, id |-> id, field_type |-> field_type,
         doc |-> doc, variant |-> variant, name |-> name, optional |-> optional]

Spec_new(toml_tag_name, id, field_type, doc, variant) ==
    LET name == toml_tag_name
        optional == CASE variant.kind = "FieldSpec" -> variant.optional
                      [] variant.kind = "SubtypeSpec" -> FALSE
                      [] variant.kind = "ExternalSpec" -> FALSE
                      [] variant.kind = "EnumSpec" -> variant.optional
                      [] variant.kind = "VecSpec" -> variant.optional
    IN  [toml_tag_name |-> toml_tag_name, id |-> id, field_type |-> field_type,
         doc |-> doc, variant |-> variant, name |-> name, optional |-> optional]

(***************************************************************************)
(* The generator on a configuration of one field, the field drawn with     *)
(* every combination of its metadata.                                      *)
(***************************************************************************)
V_PathBuf == T_VecOpen \o PATH_BUF \o T_VecClose

Opt(S) == {None} \cup {Some(x) : x \in S}

VecTypes == {V_String, V_char, V_i64, V_f64, V_bool, V_usize, V_PathBuf}
VecDefaults ==
    Opt({ArrayV(<<>>),
         ArrayV(<<IntegerV(1), IntegerV(2), IntegerV(3)>>),
         ArrayV(<<IntegerV(3), IntegerV(1)>>),
         ArrayV(<<IntegerV(1), StringV(S_p)>>),
         ArrayV(<<IntegerV(-1)>>),
         ArrayV(<<StringV(S_p), StringV(S_pq)>>),
         ArrayV(<<StringV(S_p), StringV(<<>>)>>),
         ArrayV(<<FloatV(<<"2",".","5">>)>>),
         ArrayV(<<FloatV(<<"2",".","5">>), IntegerV(1)>>),
         ArrayV(<<BooleanV(TRUE), BooleanV(FALSE)>>),
         StringV(S_p)})

LeafSpecs ==
    {Spec_new(<<"a">>, <<"a">>, ty, doc, Field(default, env, long, short, optional)) :
        ty \in {T_String, T_i64, T_char, T_bool, PATH_BUF},
        doc \in Opt({S_d}),
        default \in Opt({S_8, <<"a","b","c">>, <<>>, <<"[">>}),
        env \in Opt({S_V}), long \in Opt({S_l}), short \in Opt({"p"}),
        optional \in BOOLEAN}
    \cup
    {Spec_new(<<"a">>, <<"a">>, ty, doc, VecField(default, env, long, short, optional)) :
        ty \in VecTypes,
        doc \in Opt({S_d}),
        default \in VecDefaults,
        env \in Opt({S_V}), long \in Opt({S_l}), short \in Opt({"p"}),
        optional \in BOOLEAN}
    \cup
    {Spec_new(<<"a">>, <<"a">>, ty, doc,
              EnumField(env, long, short, optional, ty, variants, default)) :
        ty \in {S_E, <<"m",":",":","E">>},
        doc \in Opt({S_d}),
        variants \in {<<>>, <<<<"X">>, <<"Y">>>>},
        default \in Opt({<<"X">>, <<"1","x">>}),
        env \in Opt({S_V}), long \in Opt({S_l}), short \in Opt({"p"}),
        optional \in BOOLEAN}
    \cup
    {Spec_new(<<"a">>, <<"a">>, S_T, doc, ExternalStruct(long, short)) :
        doc \in Opt({S_d}), long \in Opt({S_l}), short \in Opt({"p"})}

InitLeaf ==
    /\ generic = EmptyTable
    /\ fields \in {Some(<<s>>) : s \in LeafSpecs}
    /\ earlier = None
    /\ raw = None
    /\ generated = None
    /\ loaded = None
    /\ made = None

NextLeaf == GenerateStruct

SpecLeaf == InitLeaf /\ [][NextLeaf]_vars

(***************************************************************************)
(* Vocabulary of the properties of the generator.                          *)
(***************************************************************************)
Generated == generated # None /\ ~IsPanic(generated[1])

\* the parameters of the #[arg(...)] lists of a generated field, in order
ArgParams(fd) ==
    LET lists == SelectSeq(fd.attributes, LAMBDA a : a.attr = "arg")
    IN  IF lists = <<>> THEN <<>> ELSE lists[1].params

ParamsNamed(fd, key) == SelectSeq(ArgParams(fd), LAMBDA p : p.key = key)

Decimal(n) ==
    CASE n = 1 -> <<"1">>
      [] n = 2 -> <<"2">>
      [] n = 3 -> <<"3">>
      [] n = -1 -> <<"-", "1">>

\* v has the shape of an element of the vector type ty
HasShape(ty, v) ==
    CASE ty = <<"V","e","c","<","i","6","4",">">> -> v.tag = "Integer"
      [] ty = <<"V","e","c","<","f","6","4",">">> -> v.tag = "Float"
      [] ty = <<"V","e","c","<","b","o","o","l",">">> -> v.tag = "Boolean"
      [] ty = <<"V","e","c","<","c","h","a","r",">">> ->
            v.tag = "String" /\ Len(v.str) >= 1
      [] ty = <<"V","e","c","<","u","s","i","z","e",">">> ->
            v.tag = "Integer" /\ v.int >= 0
      [] OTHER -> v.tag = "String"

\* the literal of the vector type ty for the element v
ElementLiteral(ty, v) ==
    CASE ty = <<"V","e","c","<","i","6","4",">">> -> [tokens |-> <<Decimal(v.int)>>]
      [] ty = <<"V","e","c","<","f","6","4",">">> -> [tokens |-> <<v.text>>]
      [] ty = <<"V","e","c","<","b","o","o","l",">">> ->
            [tokens |-> <<IF v.bool THEN <<"t","r","u","e">>
                          ELSE <<"f","a","l","s","e">>>>]
      [] ty = <<"V","e","c","<","c","h","a","r",">">> -> [chr |-> v.str[1]]
      [] ty = <<"V","e","c","<","u","s","i","z","e",">">> ->
            [tokens |-> <<Decimal(v.int) \o <<"u","s","i","z","e">>>>]
      [] OTHER -> [to_string |-> v.str]

HasArrayDefault(s) ==
    /\ s.variant.kind = "VecSpec"
    /\ s.variant.default # None
    /\ s.variant.default[1].tag = "Array"

\* C13: for a vector field with a default array, the generator emits one
\* default list holding one literal per element, in the array's order and of
\* the field's element type; when an element has not the shape of the
\* element type, generation fails and nothing is emitted.
VecDefaultCoercion ==
    (generated # None /\ Len(fields[1]) = 1 /\ HasArrayDefault(fields[1][1])) =>
        LET s == fields[1][1]
            arr == s.variant.default[1].arr
        IN  IF \A k \in 1..Len(arr) : HasShape(s.field_type, arr[k])
            THEN /\ ~IsPanic(generated[1])
                 /\ LET ps == ParamsNamed(generated[1].items[1].fields[1],
                                          "default_values_t")
                    IN  /\ Len(ps) = 1
                        /\ Len(ps[1].value.elems) = Len(arr)
                        /\ \A k \in 1..Len(arr) :
                              ps[1].value.elems[k] = ElementLiteral(s.field_type, arr[k])
            ELSE IsPanic(generated[1])

(***************************************************************************)
(* ConfigSpec::from_file of rclap_core/src/lib.rs.  A file is its path,    *)
(* whether it can be read, and what its content parses to.                 *)
(***************************************************************************)
S_toml == <<"t","o","m","l">>
\* file paths: with and without extension, in another case, with a
\* second extension, with a leading dot, under a directory
Paths ==
    {<<"a",".","t","o","m","l">>,
     <<"a",".","T","O","M","L">>,
     <<"a",".","y","a","m","l">>,
     <<"a",".","j","s","o","n">>,
     <<"a">>,
     <<".","t","o","m","l">>,
     <<"a",".","t","o","m","l",".","b","a","k">>,
     <<"a",".","b",".","t","o","m","l">>,
     <<"a",".">>,
     <<"d",".","t","o","m","l","/","a">>,
     <<"d","/","a",".","t","o","m","l">>,
     <<"t","o","m","l">>}

MsgUnsupported ==
    <<"U","n","s","u","p","p","o","r","t","e","d"," ","f","i","l","e"," ","f","o","r","m","a","t","."," ",
     "O","n","l","y"," ",".","t","o","m","l"," ",
     "a","n","d"," ",".","j","s","o","n"," ","a","r","e"," ","s","u","p","p","o","r","t","e","d",".">>
MsgNotFound == <<"N","o"," ","s","u","c","h"," ","f","i","l","e"," ","o","r"," ","d","i","r","e","c","t","o","r","y">>
MsgParse == <<"F","a","i","l","e","d"," ","t","o"," ","p","a","r","s","e"," ","T","O","M","L"," ","c","o","n","f","i","g">>

Ok(v) == [ok |-> v]
Err(msg) == [err |-> msg]

\* the index of the last occurrence of c in s, 0 when there is none
rfind(s, c) ==
    IF \E i \in 1..Len(s) : s[i] = c
    THEN CHOOSE i \in 1..Len(s) : s[i] = c /\ \A j \in (i + 1)..Len(s) : s[j] # c
    ELSE 0

\* Path::file_name: the last component of the path
file_name(path) == SubSeq(path, rfind(path, "/") + 1, Len(path))

\* Path::extension: the part of the file name after its last `.`, unless the
\* file name has no `.` or only a leading one
extension(path) ==
    LET file == file_name(path)
        dot == rfind(file, ".")
    IN  IF file = <<>> \/ dot = 0 \/ dot = 1 THEN None
        ELSE Some(SubSeq(file, dot + 1, Len(file)))

\* load_toml_config: toml::from_str, then the conversion
load_toml_config(well_formed, document, order) ==
    IF ~well_formed THEN Panic(MsgParse)
    ELSE [fields |-> from_generic(document, order)]

\* from_file parsing the content before it looks at the extension
from_file_parse_first(path, readable, well_formed, document, order) ==
    IF ~readable
    THEN [result |-> Err(MsgNotFound), parsed |-> FALSE]
    ELSE LET spec == load_toml_config(well_formed, document, order)
         IN  IF extension(path) = Some(S_toml)
             THEN [result |-> IF IsPanic(spec) THEN spec ELSE Ok(spec), parsed |-> TRUE]
             ELSE [result |-> Err(MsgUnsupported), parsed |-> TRUE]

\* from_file; `parsed` tells whether toml::from_str was called
from_file(path, readable, well_formed, document, order) ==
    IF ~readable
    THEN [result |-> Err(MsgNotFound), parsed |-> FALSE]
    ELSE IF extension(path) = Some(S_toml)
    THEN LET spec == load_toml_config(well_formed, document, order)
         IN  [result |-> IF IsPanic(spec) THEN spec ELSE Ok(spec), parsed |-> TRUE]
    ELSE [result |-> Err(MsgUnsupported), parsed |-> FALSE]

\* ConfigSpec::from_file(path) on a file whose content is the document read
\* so far, or text that is no TOML
FromFile ==
    /\ loaded = None
    /\ \E path \in Paths :
       \E readable \in BOOLEAN :
       \E well_formed \in BOOLEAN :
       \E order \in hash_orders(generic) :
            loaded' = Some([path |-> path, readable |-> readable,
                            well_formed |-> well_formed,
                            call |-> from_file(path, readable, well_formed,
                                               generic, order)])
    /\ UNCHANGED <<generic, fields, earlier, raw, generated, made>>

InitFile == Init

NextFile == ParseEntry \/ FromFile

SpecFile == InitFile /\ [][NextFile]_vars

IsOk(r) == "ok" \in DOMAIN r
IsErr(r) == "err" \in DOMAIN r

Contains(s, sub) ==
    \E i \in 1..(Len(s) - Len(sub) + 1) : SubSeq(s, i, i + Len(sub) - 1) = sub

\* the paths of the model whose extension is exactly `toml`
TomlPaths == {<<"a",".","t","o","m","l">>,
              <<"a",".","b",".","t","o","m","l">>,
              <<"d","/","a",".","t","o","m","l">>}

WitnessFormatGateRejects ==
    /\ loaded # None
    /\ loaded[1].readable
    /\ loaded[1].path = <<".","t","o","m","l">>
    /\ IsErr(loaded[1].call.result)
    /\ ~loaded[1].call.parsed

\* the parameter names of a generated field in order, both default
\* parameters named "default"
ParamNames(fd) ==
    [i \in 1..Len(ArgParams(fd)) |->
        IF ArgParams(fd)[i].key \in {"default_value", "default_value_t"}
        THEN "default" ELSE ArgParams(fd)[i].key]

ArgLists(fd) == SelectSeq(fd.attributes, LAMBDA a : a.attr = "arg")

IfSome(o, name) == IF o # None THEN <<name>> ELSE <<>>

\* what a Leaf field's parameters hold, whatever their order
LeafParamValues(s, fd) ==
    /\ Len(ArgLists(fd)) = 1
    /\ ParamsNamed(fd, "id") = <<[key |-> "id", value |-> [str |-> s.id]]>>
    /\ s.doc # None =>
          ParamsNamed(fd, "help") = <<[key |-> "help", value |-> [str |-> s.doc[1]]]>>
    /\ s.variant.env # None =>
          ParamsNamed(fd, "env") = <<[key |-> "env", value |-> [str |-> s.variant.env[1]]]>>
    /\ ParamsNamed(fd, "long")
          = <<[key |-> "long",
               value |-> [str |-> IF s.variant.long_arg # None
                                  THEN s.variant.long_arg[1] ELSE s.id]]>>
    /\ s.variant.short_arg # None =>
          ParamsNamed(fd, "short")
             = <<[key |-> "short", value |-> [chr |-> s.variant.short_arg[1]]]>>

LeafTail(s) ==
    IfSome(s.variant.default, "default") \o IfSome(s.variant.env, "env")
    \o <<"long">> \o IfSome(s.variant.short_arg, "short")

\* C15 as stated: every generated Leaf field has one attribute list, in the
\* order id, help (if doc), default (if any), env (if any), one long (the
\* explicit flag or else the id), short (if any).
LeafAttributeOrder ==
    Generated =>
        \A i \in 1..Len(fields[1]) :
            fields[1][i].variant.kind = "FieldSpec" =>
                LET s == fields[1][i]
                    fd == generated[1].items[1].fields[i]
                IN  /\ LeafParamValues(s, fd)
                    /\ ParamNames(fd) = <<"id">> \o IfSome(s.doc, "help") \o LeafTail(s)

\* C15 as amended: the same list with help (if doc) first and id second.
LeafAttributeOrderHelpFirst ==
    Generated =>
        \A i \in 1..Len(fields[1]) :
            fields[1][i].variant.kind = "FieldSpec" =>
                LET s == fields[1][i]
                    fd == generated[1].items[1].fields[i]
                IN  /\ LeafParamValues(s, fd)
                    /\ ParamNames(fd) = IfSome(s.doc, "help") \o <<"id">> \o LeafTail(s)

WitnessLeafAttributeOrder ==
    /\ Generated
    /\ Len(fields[1]) = 1
    /\ fields[1][1].variant.kind = "FieldSpec"
    /\ ParamNames(generated[1].items[1].fields[1])
          = <<"help", "id", "default", "env", "long", "short">>
    /\ fields[1][1].variant.long_arg = None

IsDecimal(d) ==
    LET digits == {"0","1","2","3","4","5","6","7","8","9"}
        body == IF d # <<>> /\ d[1] = "-" THEN Tail(d) ELSE d
    IN  body # <<>> /\ \A i \in 1..Len(body) : body[i] \in digits

\* the default text d can be read as a value of the leaf type ty
Coerces(ty, d) ==
    CASE ty = <<"i","6","4">> -> IsDecimal(d)
      [] ty = <<"b","o","o","l">> ->
            d \in {<<"t","r","u","e">>, <<"f","a","l","s","e">>}
      [] ty = <<"c","h","a","r">> -> Len(d) = 1
      [] OTHER -> TRUE

\* C16: when the default text of a Leaf field cannot be read as a value of
\* the field's type, optional or not, generation fails and no default
\* parameter is emitted.
MalformedDefaultFatal ==
    (generated # None /\ Len(fields[1]) = 1
        /\ fields[1][1].variant.kind = "FieldSpec"
        /\ fields[1][1].variant.default # None
        /\ ~Coerces(fields[1][1].field_type, fields[1][1].variant.default[1])) =>
        IsPanic(generated[1])

\* C17: in the declarations of a generated module no type name is declared
\* twice, also when two fields of the tree carry the same type name.
DeclaredOnce ==
    Generated =>
        \A i, j \in 1..Len(generated[1].items) :
            i # j => generated[1].items[i].ident # generated[1].items[j].ident

(***************************************************************************)
(* The generator on specification trees of all five kinds, built field by  *)
(* field with Spec::new.                                                   *)
(***************************************************************************)
\* fields (at any depth) of a specification tree
MaxSpecs == 3

RECURSIVE SpecCount(_)
SpecCount(fs) ==
    IF fs = <<>> THEN 0
    ELSE 1 + (IF Head(fs).variant.kind = "SubtypeSpec"
              THEN SpecCount(Head(fs).variant.fields) ELSE 0)
           + SpecCount(Tail(fs))

\* the index paths of the lists of a tree a field can be pushed to: the
\* root list and the list of every SubtypeSpec
RECURSIVE ListPaths(_)
ListPaths(fs) ==
    {<<>>} \cup
    UNION { { <<i>> \o p : p \in ListPaths(fs[i].variant.fields) } :
            i \in {x \in 1..Len(fs) : fs[x].variant.kind = "SubtypeSpec"} }

\* the field owning the list at index path p, None for the root list
RECURSIVE OwnerAt(_, _)
OwnerAt(fs, p) ==
    IF p = <<>> THEN None
    ELSE IF Len(p) = 1 THEN Some(fs[p[1]])
    ELSE OwnerAt(fs[p[1]].variant.fields, Tail(p))

\* subtype_fields.push(spec) on the list at index path p
RECURSIVE PushAt(_, _, _)
PushAt(fs, p, spec) ==
    IF p = <<>> THEN Append(fs, spec)
    ELSE [i \in 1..Len(fs) |->
            IF i = p[1]
            THEN [fs[i] EXCEPT !.variant =
                     SubField(PushAt(fs[i].variant.fields, Tail(p), spec))]
            ELSE fs[i]]

TagNames == <<<<"a">>, <<"b">>, <<"c">>, <<"d">>, <<"e">>>>

\* the fields a tree is built from
TreeSpecs(tag, id) ==
    {Spec_new(tag, id, T_String, None, Field(None, None, None, None, FALSE)),
     Spec_new(tag, id, T_i64, Some(S_d),
              Field(Some(S_8), Some(S_V), Some(S_l), Some("p"), TRUE)),
     Spec_new(tag, id, S_T, None, SubField(<<>>)),
     Spec_new(tag, id, S_T, Some(S_d), SubField(<<>>)),
     Spec_new(tag, id, <<"U">>, None, SubField(<<>>)),
     Spec_new(tag, id, S_T, None, ExternalStruct(None, None)),
     Spec_new(tag, id, <<"U">>, Some(S_d), ExternalStruct(Some(S_l), Some("p"))),
     Spec_new(tag, id, S_E, None,
              EnumField(None, None, None, FALSE, S_E, <<<<"X">>, <<"Y">>>>, Some(<<"X">>))),
     Spec_new(tag, id, <<"F">>, Some(S_d),
              EnumField(Some(S_V), Some(S_l), Some("p"), TRUE, <<"F">>,
                        <<<<"Y">>, <<"X">>>>, None)),
     Spec_new(tag, id, S_E, None,
              EnumField(None, None, None, FALSE, S_E, <<>>, None)),
     Spec_new(tag, id, V_i64, Some(S_d),
              VecField(Some(ArrayV(<<IntegerV(1), IntegerV(2), IntegerV(3)>>)),
                       Some(S_V), None, None, FALSE)),
     Spec_new(tag, id, V_String, None, VecField(None, None, Some(S_l), Some("p"), TRUE))}

\* every SubtypeSpec of the tree has at least one field
RECURSIVE NoEmptySubtype(_)
NoEmptySubtype(fs) ==
    \A i \in 1..Len(fs) :
        fs[i].variant.kind = "SubtypeSpec" =>
            /\ fs[i].variant.fields # <<>>
            /\ NoEmptySubtype(fs[i].variant.fields)

InitTree ==
    /\ generic = EmptyTable
    /\ fields = Some(<<>>)
    /\ earlier = None
    /\ raw = None
    /\ generated = None
    /\ loaded = None
    /\ made = None

\* one more field is resolved and pushed to the root list or to the list of
\* a SubtypeSpec
PushSpec ==
    /\ generated = None
    /\ SpecCount(fields[1]) < MaxSpecs
    /\ \E p \in ListPaths(fields[1]) :
       LET owner == OwnerAt(fields[1], p)
           tag == TagNames[SpecCount(fields[1]) + 1]
           id == field_id(tag, IF owner = None THEN None ELSE Some(owner[1].id))
       IN  \E spec \in TreeSpecs(tag, id) :
                fields' = Some(PushAt(fields[1], p, spec))
    /\ UNCHANGED <<generic, earlier, raw, generated, loaded, made>>

\* generate_struct on a tree the resolver has finished
GenerateTree == NoEmptySubtype(fields[1]) /\ GenerateStruct

NextTree == PushSpec \/ GenerateTree

SpecTree == InitTree /\ [][NextTree]_vars

\* the fields of a tree, each with the indices on its way from the root list
RECURSIVE Indexed(_, _)
Indexed(fs, prefix) ==
    UNION { {[ipath |-> prefix \o <<i>>, field |-> fs[i]]} \cup
            (IF fs[i].variant.kind = "SubtypeSpec"
             THEN Indexed(fs[i].variant.fields, prefix \o <<i>>)
             ELSE {}) : i \in 1..Len(fs) }

\* p comes before q in pre-order: p is an ancestor of q, or p branches off
\* to the left of q
Before(p, q) ==
    \/ Len(p) < Len(q) /\ SubSeq(q, 1, Len(p)) = p
    \/ \E i \in 1..Len(p) :
          /\ i <= Len(q)
          /\ SubSeq(p, 1, i - 1) = SubSeq(q, 1, i - 1)
          /\ p[i] < q[i]

\* the fields a declaration is generated for
Declaring(s) ==
    \/ s.variant.kind = "SubtypeSpec"
    \/ s.variant.kind = "EnumSpec" /\ s.variant.variants # <<>>

NamesOf(fs) == [i \in 1..Len(fs) |-> fs[i].name]

\* C18: the declarations start with the root struct; after it come, in
\* pre-order of the tree, one struct per Nested field (so before the
\* declarations of its descendants, which come before those of its next
\* sibling) and one enum per Enum field with variants, listing them in
\* their order; an Enum field without variants and Leaf, Vector and External
\* fields have no declaration.
EmissionOrder ==
    Generated =>
        LET items == generated[1].items
            D == {l \in Indexed(fields[1], <<>>) : Declaring(l.field)}
            rank(l) == Cardinality({m \in D : Before(m.ipath, l.ipath)})
        IN  /\ Len(items) = 1 + Cardinality(D)
            /\ items[1].item = "struct"
            /\ items[1].ident = <<"M", "y", "C", "o", "n", "f", "i", "g">>
            /\ NamesOf(items[1].fields) = NamesOf(fields[1])
            /\ \A l \in D :
                  LET it == items[2 + rank(l)]
                  IN  /\ it.ident = l.field.field_type
                      /\ l.field.variant.kind = "SubtypeSpec" =>
                            /\ it.item = "struct"
                            /\ NamesOf(it.fields) = NamesOf(l.field.variant.fields)
                      /\ l.field.variant.kind = "EnumSpec" =>
                            /\ it.item = "enum"
                            /\ it.variants = l.field.variant.variants

WitnessEmissionOrder ==
    /\ Generated
    /\ Len(fields[1]) = 2
    /\ fields[1][1].variant.kind = "SubtypeSpec"
    /\ fields[1][1].variant.fields[1].variant.kind = "EnumSpec"
    /\ [i \in 1..Len(generated[1].items) |-> generated[1].items[i].ident]
          = <<<<"M", "y", "C", "o", "n", "f", "i", "g">>, <<"T">>, <<"E">>, <<"F">>>>

\* the generated structs in order, each with the list of fields it declares
StructItems == SelectSeq(generated[1].items, LAMBDA it : it.item = "struct")
StructLists == <<fields[1]>> \o NestedLists(fields[1])

\* C19: a Nested or External field is generated with no argument list (no
\* id, help, default, env, long or short), whatever doc, long or short it
\* holds, and with the flatten marker exactly once; beside the marker it has
\* at most its doc comment.
FlattenOnly ==
    Generated =>
        /\ Len(StructItems) = Len(StructLists)
        /\ \A k \in 1..Len(StructLists) :
           \A i \in 1..Len(StructLists[k]) :
              LET s == StructLists[k][i]
                  attrs == StructItems[k].fields[i].attributes
              IN  s.variant.kind \in {"SubtypeSpec", "ExternalSpec"} =>
                     /\ \A a \in 1..Len(attrs) : attrs[a].attr # "arg"
                     /\ Cardinality({a \in 1..Len(attrs) :
                                        attrs[a] = [attr |-> "command",
                                                    params |-> <<"flatten">>]}) = 1
                     /\ \A a \in 1..Len(attrs) :
                           attrs[a].attr \in {"command", "doc"}
                     /\ Len(attrs) = IF s.doc # None THEN 2 ELSE 1

WitnessFlattenOnly ==
    /\ Generated
    /\ \E i \in 1..Len(fields[1]) :
          /\ fields[1][i].variant.kind = "ExternalSpec"
          /\ fields[1][i].variant.long_arg # None
          /\ fields[1][i].doc # None
          /\ Len(generated[1].items[1].fields[i].attributes) = 2
    /\ \E i \in 1..Len(fields[1]) :
          /\ fields[1][i].variant.kind = "SubtypeSpec"
          /\ fields[1][i].doc # None

PositionsOf(fd, key) == {i \in 1..Len(ArgParams(fd)) : ArgParams(fd)[i].key = key}

\* C20: a generated Vector field has the comma delimiter parameter exactly
\* when it has an environment variable, once and right after the env
\* parameter; Leaf and Enum fields never have it.
VectorDelimiter ==
    Generated =>
        \A k \in 1..Len(StructLists) :
        \A i \in 1..Len(StructLists[k]) :
            LET s == StructLists[k][i]
                fd == StructItems[k].fields[i]
                delims == PositionsOf(fd, "value_delimiter")
            IN  /\ s.variant.kind = "VecSpec" =>
                      /\ (delims # {}) <=> (s.variant.env # None)
                      /\ s.variant.env # None =>
                            /\ Cardinality(delims) = 1
                            /\ Cardinality(PositionsOf(fd, "env")) = 1
                            /\ \A d \in delims :
                                  /\ d - 1 \in PositionsOf(fd, "env")
                                  /\ ArgParams(fd)[d].value = [chr |-> ","]
                /\ s.variant.kind \in {"FieldSpec", "EnumSpec"} => delims = {}

WitnessVectorDelimiter ==
    /\ Generated
    /\ Len(fields[1]) = 1
    /\ fields[1][1].variant.kind = "VecSpec"
    /\ fields[1][1].variant.env # None
    /\ fields[1][1].variant.default # None
    /\ ParamNames(generated[1].items[1].fields[1])
          = <<"help", "id", "default_values_t", "env", "value_delimiter", "long", "short">>

(***************************************************************************)
(* Top-level entries that are not tables.                                  *)
(***************************************************************************)
TableKeys(table) == {k \in DOMAIN table : table[k].tag = "Table"}

TablesOnly(table) == [k \in TableKeys(table) |-> table[k]]

\* C21: converting a document yields exactly one root field per top-level
\* entry whose value is a table and none for a top-level string or array, and
\* the fields are those the conversion yields for the document without its
\* non-table top-level entries.
NonTableSkipped ==
    Resolved =>
        LET fs == fields[1]
        IN  /\ Len(fs) = Cardinality(TableKeys(generic))
            /\ {fs[i].name : i \in 1..Len(fs)} = TableKeys(generic)
            /\ \E order \in hash_orders(TablesOnly(generic)) :
                    fs = from_generic(TablesOnly(generic), order)

WitnessNonTableSkipped ==
    /\ Resolved
    /\ Len(fields[1]) = 1
    /\ \E k \in DOMAIN generic : generic[k].tag = "String"
    /\ \E k \in DOMAIN generic : generic[k].tag = "Array"

(***************************************************************************)
(* Metadata of the wrong type.                                             *)
(***************************************************************************)
TextMetadata == {K_default, K_doc, K_env, K_long, K_short}

HasBool(table, key) == key \in DOMAIN table /\ table[key].tag = "Boolean"

\* the metadata entries of a table that hold a value of the wrong type
Malformed(table) ==
    {k \in DOMAIN table : \/ k \in TextMetadata /\ table[k].tag # "String"
                          \/ k = K_optional /\ table[k].tag # "Boolean"}

\* a table without the malformed metadata of it and of the tables below it
RECURSIVE Scrub(_)
Scrub(table) ==
    [k \in DOMAIN table \ Malformed(table) |->
        IF table[k].tag = "Table" THEN TableV(Scrub(table[k].tbl)) ELSE table[k]]

ScrubFields(document) ==
    [k \in DOMAIN document |->
        IF document[k].tag = "Table" THEN TableV(Scrub(document[k].tbl))
        ELSE document[k]]

ResolvableVecTypes ==
    {get_field_type(t, FALSE, <<>>).type_name :
        t \in {x \in TypeTables :
                 LET r == get_field_type(x, FALSE, <<>>)
                 IN  ~IsPanic(r) /\ r.is_vec}}

\* C23: a vector field whose type name the type resolver can produce and whose
\* default array holds only elements of the matching shape is generated
\* without failing, and a vector type for which the generator emits a default
\* list is a type name the resolver produces for some schema it accepts.
VectorAgreement ==
    (generated # None /\ Len(fields[1]) = 1 /\ HasArrayDefault(fields[1][1])) =>
        LET s == fields[1][1]
            arr == s.variant.default[1].arr
        IN  /\ ( /\ s.field_type \in ResolvableVecTypes
                 /\ \A k \in 1..Len(arr) : HasShape(s.field_type, arr[k]) )
                    => ~IsPanic(generated[1])
            /\ ~IsPanic(generated[1]) => s.field_type \in ResolvableVecTypes

(***************************************************************************)
(* Spec::new on its own: one call with arguments of every kind, and the    *)
(* generator on the configuration holding the constructed field.           *)
(***************************************************************************)
NewVariants ==
    {<<ty, Field(None, None, None, None, o)>> : ty \in {T_String, T_i64}, o \in BOOLEAN}
    \cup {<<S_E, EnumField(None, None, None, o, S_E, <<<<"X">>, <<"Y">>>>, None)>> :
             o \in BOOLEAN}
    \cup {<<V_i64, VecField(None, None, None, None, o)>> : o \in BOOLEAN}
    \cup {<<S_T, ExternalStruct(long, short)>> :
             long \in Opt({S_l}), short \in Opt({"p"})}
    \cup {<<S_T, SubField(<<Spec_new(<<"c">>, <<"c">>, T_String, None,
                                     Field(None, None, None, None, o))>>)>> :
             o \in BOOLEAN}

InitNew ==
    /\ generic = EmptyTable
    /\ fields = None
    /\ earlier = None
    /\ raw = None
    /\ generated = None
    /\ loaded = None
    /\ made = None

\* Spec::new(toml_tag_name, id, field_type, doc, variant); the constructed
\* field becomes the configuration handed to the generator
NewSpec ==
    /\ made = None
    /\ \E toml_tag_name \in {<<"a">>, <<"b">>} :
       \E id \in {<<"a">>, <<"a", ".", "b">>} :
       \E doc \in Opt({S_d}) :
       \E tv \in NewVariants :
          LET result == Spec_new(toml_tag_name, id, tv[1], doc, tv[2])
          IN  /\ made' = Some([toml_tag_name |-> toml_tag_name, id |-> id,
                               field_type |-> tv[1], doc |-> doc,
                               variant |-> tv[2], result |-> result])
              /\ fields' = Some(<<result>>)
    /\ UNCHANGED <<generic, earlier, raw, generated, loaded>>

NextNew == NewSpec \/ GenerateStruct

SpecNew == InitNew /\ [][NextNew]_vars

\* C24: the field Spec::new constructs is optional as its variant says for a
\* Leaf, Enum or Vector variant and not optional for a Nested or External
\* one; its name is toml_tag_name, and id, field_type, doc and variant are
\* the arguments; a Nested or External field so built is generated with a
\* type that is not wrapped in Option.
NewOptional ==
    made # None =>
        LET c == made[1]
            s == c.result
            kind == c.variant.kind
        IN  /\ kind \in {"FieldSpec", "EnumSpec", "VecSpec"} =>
                  s.optional = c.variant.optional
            /\ kind \in {"SubtypeSpec", "ExternalSpec"} => s.optional = FALSE
            /\ s.name = c.toml_tag_name
            /\ s.toml_tag_name = c.toml_tag_name
            /\ s.id = c.id
            /\ s.field_type = c.field_type
            /\ s.doc = c.doc
            /\ s.variant = c.variant
            /\ (generated # None /\ kind \in {"SubtypeSpec", "ExternalSpec"}) =>
                  /\ ~IsPanic(generated[1])
                  /\ generated[1].items[1].fields[1].name = c.toml_tag_name
                  /\ ~IsWrapped(generated[1].items[1].fields[1].ty)

WitnessNewOptional ==
    /\ made # None
    /\ Generated
    /\ made[1].variant.kind = "SubtypeSpec"
    /\ made[1].id # made[1].toml_tag_name
    /\ made[1].result.variant.fields[1].optional
    /\ ~made[1].result.optional

WitnessNewOptionalLeaf ==
    /\ made # None
    /\ Generated
    /\ made[1].variant.kind = "EnumSpec"
    /\ made[1].result.optional
    /\ IsWrapped(generated[1].items[1].fields[1].ty)

====
